---- MODULE Spec2Model ----
(***************************************************************************)
(* A model of the SPG-L1 solvers of cr/sparse/_src/cvx/spgl1.py:           *)
(* the l1-ball projector, the curvilinear line search, the LASSO solver    *)
(* and the BPIC solver.                                                    *)
(*                                                                         *)
(* Numbers are exact rationals <<n, d>> in lowest terms with d > 0.        *)
(* A division by zero gives what IEEE arithmetic gives: <<1, 0>> is +inf,  *)
(* <<-1, 0>> is -inf and <<0, 0>> is NaN.  Square roots (the 2-norm) are   *)
(* rounded up to a multiple of 1/SqrtDen, every other operation is exact.  *)
(* Vectors are sequences of rationals, a matrix is a sequence of rows.     *)
(* The solvers iterate a state further only while its numbers stay within  *)
(* MaxRep, the range in which the exact arithmetic fits the integers.      *)
(***************************************************************************)
EXTENDS Integers, Sequences, FiniteSets

VARIABLES pc, prob, st, loc

vars == <<pc, prob, st, loc>>

(***************************************************************************)
(* Bounds of the model.                                                    *)
(***************************************************************************)
\* denominator of the grid the rounded square roots lie on
SqrtDen == 2
\* largest numerator or denominator of a solver state that is iterated further
MaxRep == 8
\* length of the vectors handed to the projector on its own
MaxLen == 3
\* the projector's inputs have entries in -MaxEntry .. MaxEntry
MaxEntry == 2

(***************************************************************************)
(* Rational arithmetic.                                                    *)
(***************************************************************************)
Abs(i) == IF i < 0 THEN -i ELSE i

RECURSIVE GCD(_, _)
GCD(a, b) == IF b = 0 THEN a ELSE GCD(b, a % b)

\* the rational n/d (d # 0) in lowest terms
RatBy(n, d, g) == IF d < 0 THEN <<-(n \div g), -(d \div g)>> ELSE <<n \div g, d \div g>>
Rat(n, d) == IF d = 1 THEN <<n, 1>> ELSE RatBy(n, d, GCD(Abs(n), Abs(d)))

I(n) == <<n, 1>>
Zero == <<0, 1>>
One == <<1, 1>>
Inf == <<1, 0>>
NegInf == <<-1, 0>>
NaN == <<0, 0>>

IsFinite(p) == p[2] # 0
IsNaN(p) == p = NaN

RNeg(p) == <<-p[1], p[2]>>
RAbs(p) == <<Abs(p[1]), p[2]>>

\* p + q over the least common denominator, g the gcd of the denominators
RAddBy(p, q, g) ==
    Rat(p[1] * (q[2] \div g) + q[1] * (p[2] \div g), p[2] * (q[2] \div g))
RAdd(p, q) ==
    IF p[2] = q[2] THEN Rat(p[1] + q[1], p[2]) ELSE RAddBy(p, q, GCD(p[2], q[2]))

RSub(p, q) == RAdd(p, RNeg(q))

\* p * q, cancelled crosswise by g1 and g2 before the products are taken
RMulBy(p, q, g1, g2) ==
    Rat((p[1] \div g1) * (q[1] \div g2), (p[2] \div g2) * (q[2] \div g1))
RMul(p, q) ==
    IF p[2] = 1 /\ q[2] = 1 THEN <<p[1] * q[1], 1>>
    ELSE RMulBy(p, q, GCD(Abs(p[1]), q[2]), GCD(Abs(q[1]), p[2]))

\* p / q for finite p and q, q # 0
RDiv(p, q) == RMul(p, IF q[1] < 0 THEN <<-q[2], -q[1]>> ELSE <<q[2], q[1]>>)

\* p < q for finite p and q
RLessBy(p, q, g) == p[1] * (q[2] \div g) < q[1] * (p[2] \div g)
RLess(p, q) == IF p[2] = q[2] THEN p[1] < q[1] ELSE RLessBy(p, q, GCD(p[2], q[2]))

RLeq(p, q) == ~RLess(q, p)
RMax(p, q) == IF RLess(p, q) THEN q ELSE p
RMin(p, q) == IF RLess(q, p) THEN q ELSE p

(***************************************************************************)
(* IEEE arithmetic on the values that may be infinite or NaN.              *)
(***************************************************************************)
\* p / q for finite p and q: x/0 is +-inf, 0/0 is NaN
XDiv(p, q) ==
    IF q[1] # 0 THEN RDiv(p, q)
    ELSE IF p[1] > 0 THEN Inf ELSE IF p[1] < 0 THEN NegInf ELSE NaN

XAdd(p, q) ==
    IF IsFinite(p) /\ IsFinite(q) THEN RAdd(p, q)
    ELSE IF IsNaN(p) \/ IsNaN(q) THEN NaN
    ELSE IF IsFinite(p) THEN q
    ELSE IF IsFinite(q) THEN p
    ELSE IF p = q THEN p ELSE NaN

XMul(p, q) ==
    IF IsFinite(p) /\ IsFinite(q) THEN RMul(p, q)
    ELSE IF IsNaN(p) \/ IsNaN(q) THEN NaN
    ELSE IF p[1] = 0 \/ q[1] = 0 THEN NaN
    ELSE IF (p[1] > 0) = (q[1] > 0) THEN Inf ELSE NegInf

\* p < q: false when either is NaN
XLess(p, q) ==
    IF IsNaN(p) \/ IsNaN(q) THEN FALSE
    ELSE IF IsFinite(p) /\ IsFinite(q) THEN RLess(p, q)
    ELSE IF p = q THEN FALSE
    ELSE IF p = NegInf \/ q = Inf THEN TRUE ELSE FALSE

XLeq(p, q) == ~IsNaN(p) /\ ~IsNaN(q) /\ ~XLess(q, p)

XAbs(p) == <<Abs(p[1]), p[2]>>

\* jnp.maximum(p, q): NaN if either is NaN
XMax(p, q) == IF IsNaN(p) \/ IsNaN(q) THEN NaN ELSE IF XLess(p, q) THEN q ELSE p

\* jnp.clip(a, lo, hi) == minimum(maximum(a, lo), hi) for finite lo and hi
Clip(a, lo, hi) ==
    LET m == XMax(a, lo)
    IN  IF IsNaN(m) THEN NaN ELSE IF XLess(hi, m) THEN hi ELSE m

(***************************************************************************)
(* Vectors.                                                                *)
(***************************************************************************)
RECURSIVE SumTo(_, _)
SumTo(v, k) == IF k = 0 THEN Zero ELSE RAdd(SumTo(v, k - 1), v[k])

VSum(v) == SumTo(v, Len(v))
VAbs(v) == [i \in 1..Len(v) |-> RAbs(v[i])]
VNeg(v) == [i \in 1..Len(v) |-> RNeg(v[i])]
VAdd(u, v) == [i \in 1..Len(u) |-> RAdd(u[i], v[i])]
VSub(u, v) == [i \in 1..Len(u) |-> RSub(u[i], v[i])]
VScale(c, v) == [i \in 1..Len(v) |-> RMul(c, v[i])]
Dot(u, v) == VSum([i \in 1..Len(u) |-> RMul(u[i], v[i])])

\* crn.arr_l1norm, crn.norm_l1
NormL1(v) == VSum(VAbs(v))

RECURSIVE MaxTo(_, _)
MaxTo(v, k) == IF k = 0 THEN Zero ELSE RMax(MaxTo(v, k - 1), v[k])

\* crn.norm_linf
NormLinf(v) == MaxTo(VAbs(v), Len(v))

(***************************************************************************)
(* L1-ball projection.                                                     *)
(***************************************************************************)
RECURSIVE Insert(_, _)
Insert(s, a) ==
    IF s = <<>> THEN <<a>>
    ELSE IF RLeq(Head(s), a) THEN <<a>> \o s
    ELSE <<Head(s)>> \o Insert(Tail(s), a)

RECURSIVE SortTo(_, _)
SortTo(v, k) == IF k = 0 THEN <<>> ELSE Insert(SortTo(v, k - 1), v[k])

\* jnp.sort(v)[::-1]
SortDesc(v) == SortTo(v, Len(v))

\* jnp.argmax of a boolean vector, as a 0-based index: the first TRUE, or 0
ArgMax(flags) ==
    IF \E k \in 1..Len(flags) : flags[k]
    THEN (CHOOSE k \in 1..Len(flags) : flags[k] /\ \A j \in 1..(k - 1) : ~flags[j]) - 1
    ELSE 0

\* flags = cu - q > u * arange(1, 1 + len(u)), cu the cumulative sums of u
Flags(u, q) ==
    [k \in 1..Len(u) |-> RLess(RMul(u[k], I(k)), RSub(SumTo(u, k), q))]

\* jnp.where(K == 0, 1, K): the fallback to the first entry, not to the length
WhereZeroFirst(K, n) == IF K = 0 THEN 1 ELSE K

\* jnp.where(K == 0, n, K)
WhereZero(K, n) == IF K = 0 THEN n ELSE K

\* Breakpoint without the fallback to the full length: an unflagged vector keeps
\* the first entry only
BreakpointFirst(u, q) == WhereZero(ArgMax(Flags(u, q)), 1)

\* the breakpoint count K of _project_to_l1_ball, for u sorted in descending order
Breakpoint(u, q) == WhereZero(ArgMax(Flags(u, q)), Len(u))

\* Shrink that forgets the negative entries
ShrinkPositive(x, kappa) ==
    [i \in 1..Len(x) |-> RMax(Zero, RSub(x[i], kappa))]

\* jnp.maximum(0, x - kappa) + jnp.minimum(0, x + kappa)
Shrink(x, kappa) ==
    [i \in 1..Len(x) |->
        RAdd(RMax(Zero, RSub(x[i], kappa)), RMin(Zero, RAdd(x[i], kappa)))]

\* kappa = (cu[K-1] - q) / K: cu[K-1] of the 0-based source is the sum of the
\* K largest magnitudes
Threshold(u, q, K) == RDiv(RSub(SumTo(u, K), q), I(K))

\* _project_to_l1_ball from the sorted magnitudes u on
ProjectSorted(x, q, u) == Shrink(x, Threshold(u, q, Breakpoint(u, q)))

_project_to_l1_ball(x, q) == ProjectSorted(x, q, SortDesc(VAbs(x)))

\* project_to_l1_ball without the test that x already lies in the ball
project_always(x, q) == _project_to_l1_ball(x, q)

\* q is finite, +inf or NaN; the comparison with an infinite or NaN q is false
project_to_l1_ball(x, q) ==
    IF XLess(q, NormL1(x)) THEN _project_to_l1_ball(x, q) ELSE x

(***************************************************************************)
(* The input sets and the empty slot of a variable.                        *)
(***************************************************************************)
Half(n) == Rat(n, 2)

RECURSIVE VecsOfLen(_, _)
VecsOfLen(S, n) ==
    IF n = 0 THEN {<<>>}
    ELSE {Append(v, a) : v \in VecsOfLen(S, n - 1), a \in S}

\* the value of a variable that holds nothing yet
NoValue == <<>>

(***************************************************************************)
(* Norms, the operator A and the objective.                                *)
(***************************************************************************)
RECURSIVE IsqrtFrom(_, _)
IsqrtFrom(n, x) ==
    LET y == (x + n \div x) \div 2
    IN  IF y >= x THEN x ELSE IsqrtFrom(n, y)

\* the largest k with k * k <= n
Isqrt(n) == IF n = 0 THEN 0 ELSE IsqrtFrom(n, n)

\* the square root of a rational q >= 0, rounded up to a multiple of 1/SqrtDen:
\* exact on the squares of the grid, and non-zero for every q > 0
Sqrt(q) ==
    LET a == q[1] * SqrtDen * SqrtDen
        t == (a + q[2] - 1) \div q[2]
    IN  Rat(IF t = 0 THEN 0 ELSE Isqrt(t - 1) + 1, SqrtDen)

\* jax.numpy.linalg.norm of a vector
norm(v) == Sqrt(Dot(v, v))

\* A.times(x) and A.trans(y) for the dense operator with rows A[1], A[2], ...
times(A, x) == [i \in 1..Len(A) |-> Dot(A[i], x)]
trans(A, y) ==
    [j \in 1..Len(A[1]) |-> VSum([i \in 1..Len(A) |-> RMul(A[i][j], y[i])])]

obj_val(r) == RMul(<<1, 2>>, Dot(r, r))

(***************************************************************************)
(* Curvilinear line search.                                                *)
(***************************************************************************)
\* max_iters of curvy_line_search
LsMaxIters == 10

\* the arguments of one call of curvy_line_search, and g_norm
LsArgs(A, b, x, g, alpha0, f_max, tau, gamma) ==
    [A |-> A, b |-> b, x |-> x, g |-> g, alpha0 |-> alpha0, f_max |-> f_max,
     tau |-> tau, gamma |-> gamma,
     g_norm |-> XDiv(norm(g), Sqrt(I(Len(x))))]

\* the lines of candidate after the projection that gives x_new
candidate_at(c, alpha, scale, x_new) ==
    LET r_new == VSub(c.b, times(c.A, x_new))
        d_new == VSub(x_new, c.x)
        gtd == RMul(scale, Dot(c.g, d_new))
    IN  [x_new |-> x_new, r_new |-> r_new, d_new |-> d_new, gtd |-> gtd,
         f_val |-> obj_val(r_new),
         f_lim |-> RAdd(c.f_max, RMul(RMul(c.gamma, alpha), gtd))]

candidate(c, alpha, scale) ==
    candidate_at(c, alpha, scale,
        project_to_l1_ball(VSub(c.x, VScale(RMul(alpha, scale), c.g)), c.tau))

\* CurvyLineSearchState(...) from the candidate n and the other fields
CurvyLineSearchState(alpha, scale, n, d_norm_old, f_lim, n_iters, n_safe) ==
    [alpha |-> alpha, scale |-> scale,
     x_new |-> n.x_new, r_new |-> n.r_new, d_new |-> n.d_new,
     gtd |-> n.gtd, d_norm_old |-> d_norm_old,
     f_val |-> n.f_val, f_lim |-> f_lim,
     n_iters |-> n_iters, n_safe |-> n_safe]

\* init() that counts the halvings, not the candidates
ls_init_uncounted(c) ==
    CurvyLineSearchState(c.alpha0, One, candidate(c, c.alpha0, One), Zero,
                         c.f_max, 0, 0)

\* init(): the state holds f_max as f_lim, not the f_lim of the candidate
ls_init(c) ==
    CurvyLineSearchState(c.alpha0, One, candidate(c, c.alpha0, One), Zero,
                         c.f_max, 1, 0)

\* next_func from the new alpha, scale and n_safe on: f_lim is the candidate's
ls_next_state(state, alpha, scale, n_safe, d_norm, n) ==
    CurvyLineSearchState(alpha, scale, n, d_norm, n.f_lim,
                         state.n_iters + 1, n_safe)

\* 1 << n
RECURSIVE Pow2(_)
Pow2(n) == IF n = 0 THEN 1 ELSE 2 * Pow2(n - 1)

\* next_func from the halved alpha and the norm of the last step on
ls_next_from(c, state, alpha, d_norm) ==
    LET too_close ==
            RLeq(RAbs(RSub(d_norm, state.d_norm_old)), RMul(<<1, 1000000>>, d_norm))
        scale ==
            IF too_close
            THEN XDiv(XDiv(d_norm, c.g_norm), I(Pow2(state.n_safe)))
            ELSE state.scale
        n_safe == IF too_close THEN state.n_safe + 1 ELSE state.n_safe
    IN  ls_next_state(state, alpha, scale, n_safe, d_norm,
                      candidate(c, alpha, scale))

ls_next_func(c, state) ==
    ls_next_from(c, state, RDiv(state.alpha, I(2)), norm(state.d_new))

\* cond_func without the test of a descent direction
ls_cond_any_direction(state) ==
    /\ state.n_iters < LsMaxIters
    /\ RLeq(state.f_lim, state.f_val)

\* cond_func without the iteration cap
ls_cond_uncapped(state) ==
    RLess(state.gtd, Zero) /\ RLeq(state.f_lim, state.f_val)

\* cond_func that never asks for another candidate: the first one is returned
ls_cond_first(state) == FALSE

ls_cond_func(state) ==
    /\ state.n_iters < LsMaxIters
    /\ RLess(state.gtd, Zero)
    /\ RLeq(state.f_lim, state.f_val)

\* lax.while_loop(cond_func, next_func, state)
RECURSIVE ls_while_loop(_, _)
ls_while_loop(c, state) ==
    IF ls_cond_func(state) THEN ls_while_loop(c, ls_next_func(c, state)) ELSE state

curvy_line_search(A, b, x, g, alpha0, f_max, tau, gamma) ==
    LET c == LsArgs(A, b, x, g, alpha0, f_max, tau, gamma)
    IN  ls_while_loop(c, ls_init(c))

(***************************************************************************)
(* Pieces shared by the two solvers.                                       *)
(***************************************************************************)
\* jnp.full(memory, f)
full(memory, f) == [i \in 1..memory |-> f]

\* jnp.max(f_past)
MaxOf(f_past) == MaxTo(f_past, Len(f_past))

\* crn.cbuf_push_left: the values move one place to the left, the value at
\* index 0 is dropped and the new value enters at the right end
cbuf_push_left(buf, val) ==
    [i \in 1..Len(buf) |-> IF i < Len(buf) THEN buf[i + 1] ELSE val]

\* the initial step length: clip(1 / ||d||_inf, alpha_min, alpha_max)
InitialAlpha(x, g, tau, o) ==
    LET d == VSub(project_to_l1_ball(VSub(x, g), tau), x)
        d_norm == NormLinf(d)
    IN  Clip(XDiv(One, d_norm), o.alpha_min, o.alpha_max)

\* the conjunct of both cond_func that caps the iterations; without it
NoCap(o, state) == TRUE

\* state.iterations < options.max_iters
WithinCap(o, state) == state.iterations < o.max_iters

\* the Barzilai-Borwein step without the clip
BBStepUnclipped(s, y, o) ==
    IF RLeq(Dot(s, y), Zero) THEN o.alpha_max ELSE RDiv(Dot(s, s), Dot(s, y))

\* the Barzilai-Borwein step of body_func
BBStep(s, y, o) ==
    LET sts == Dot(s, s)
        sty == Dot(s, y)
    IN  IF RLeq(sty, Zero)
        THEN o.alpha_max
        ELSE Clip(RDiv(sts, sty), o.alpha_min, o.alpha_max)

\* gap = dot(r, r - b) + tau * dual_norm(g); tau may be infinite or NaN
DualityGap(b, g, r, tau) == XAdd(Dot(r, VSub(r, b)), XMul(tau, NormLinf(g)))

\* r_gap = abs(gap) / maximum(1, f)
RelGap(gap, f) == IF IsFinite(gap) THEN RDiv(RAbs(gap), RMax(One, f)) ELSE XAbs(gap)

(***************************************************************************)
(* SPG-L1 solver for the BPIC problem.                                     *)
(***************************************************************************)
\* bpic_metrics from the dual norm, the residual norm and the gap on
bpic_metrics_of(f, sigma, g_dnorm, r_norm, gap) ==
    [g_dnorm |-> g_dnorm, r_norm |-> r_norm,
     r_gap |-> RelGap(gap, f),
     r_res_error |-> RDiv(RAbs(RSub(r_norm, sigma)), RMax(One, r_norm)),
     r_f_error |->
        RDiv(RAbs(RSub(f, RDiv(RMul(sigma, sigma), I(2)))), RMax(One, f))]

bpic_metrics(b, x, g, r, f, sigma, tau) ==
    bpic_metrics_of(f, sigma, NormLinf(g), norm(r), DualityGap(b, g, r, tau))

\* residual, gradient and objective at x, with x itself
compute_rgf(A, b, x) ==
    LET r == VSub(b, times(A, x))
    IN  [x |-> x, r |-> r, g |-> VNeg(trans(A, r)), f |-> obj_val(r)]

update_xrgf(A, b, x, tau) == compute_rgf(A, b, project_to_l1_ball(x, tau))

\* the Newton update of tau without the maximum with 0
NewtonTauUnclamped(tau, r_norm, sigma, g_dnorm) ==
    XAdd(tau, XDiv(RMul(r_norm, RSub(r_norm, sigma)), g_dnorm))

\* the Newton update of tau: maximum(0, tau + r_norm (r_norm - sigma) / g_dnorm)
NewtonTau(tau, r_norm, sigma, g_dnorm) ==
    XMax(Zero, XAdd(tau, XDiv(RMul(r_norm, RSub(r_norm, sigma)), g_dnorm)))

\* init() from the second update_xrgf on: u is its result at the new tau
bpic_init_state(b, sigma, o, tau, u) ==
    LET m == bpic_metrics(b, u.x, u.g, u.r, u.f, sigma, tau)
        alpha == InitialAlpha(u.x, u.g, tau, o)
    IN  [x |-> u.x, g |-> u.g, r |-> u.r,
         f_past |-> full(o.memory, u.f),
         tau |-> tau,
         r_norm |-> m.r_norm, r_gap |-> m.r_gap,
         r_res_error |-> m.r_res_error, r_f_error |-> m.r_f_error,
         alpha |-> alpha, alpha_next |-> alpha,
         iterations |-> 1, n_times |-> 2, n_trans |-> 2,
         n_newton |-> 0, n_ls_iters |-> 0]

\* init() from the first metrics on: u0 is the first update_xrgf at tau0
bpic_init_newton(A, b, sigma, o, tau0, u0) ==
    LET m0 == bpic_metrics(b, u0.x, u0.g, u0.r, u0.f, sigma, tau0)
        tau == NewtonTau(tau0, m0.r_norm, sigma, m0.g_dnorm)
    IN  bpic_init_state(b, sigma, o, tau, update_xrgf(A, b, u0.x, tau))

bpic_init(A, b, sigma, x0, o) ==
    bpic_init_newton(A, b, sigma, o, NormL1(x0),
                     update_xrgf(A, b, x0, NormL1(x0)))

\* flag_c whose second branch leaves out the test r_norm <= 2 sigma
bpic_flag_loose(sigma, o, state, f, r_norm) ==
    \/ /\ RLeq(RAbs(RSub(f, state.f_past[1])), RMul(o.dec_tol, f))
       /\ RLess(RMul(I(2), sigma), r_norm)
    \/ RLeq(RAbs(RSub(f, state.f_past[1])),
            RMul(RMul(<<1, 10>>, f), RAbs(RSub(r_norm, sigma))))

\* flag_c of body_func: the objective has stalled and tau is to be updated
bpic_flag_c(sigma, o, state, f, r_norm) ==
    LET f_change == RAbs(RSub(f, state.f_past[1]))
    IN  \/ /\ RLeq(f_change, RMul(o.dec_tol, f))
           /\ RLess(RMul(I(2), sigma), r_norm)
        \/ /\ RLeq(f_change, RMul(RMul(<<1, 10>>, f), RAbs(RSub(r_norm, sigma))))
           /\ RLeq(r_norm, RMul(I(2), sigma))

\* the locals of body_func, gathered: u holds x, r, g, f after the second cond
bpic_body_record(state, lsearch, m, flag_c, tau, resync, u) ==
    [lsearch |-> lsearch, m |-> m, flag_c |-> flag_c,
     tau |-> tau, resync |-> resync, u |-> u,
     s |-> VSub(u.x, state.x), y |-> VSub(u.g, state.g)]

\* the second lax.cond projecting x again without its residual and gradient
bpic_body_reproject(A, b, state, lsearch, g, m, flag_c, tau) ==
    bpic_body_record(state, lsearch, m, flag_c, tau, XLess(tau, state.tau),
        [x |-> IF XLess(tau, state.tau)
               THEN project_to_l1_ball(lsearch.x_new, tau)
               ELSE lsearch.x_new,
         r |-> lsearch.r_new, g |-> g, f |-> lsearch.f_val])

\* the second lax.cond taken whenever tau changed, grown or shrunk
bpic_body_resync_changed(A, b, state, lsearch, g, m, flag_c, tau) ==
    bpic_body_record(state, lsearch, m, flag_c, tau, tau # state.tau,
        IF tau # state.tau
        THEN update_xrgf(A, b, lsearch.x_new, tau)
        ELSE [x |-> lsearch.x_new, r |-> lsearch.r_new, g |-> g,
              f |-> lsearch.f_val])

\* body_func from the second lax.cond on: x is projected again if tau shrank
bpic_body_resync(A, b, state, lsearch, g, m, flag_c, tau) ==
    bpic_body_record(state, lsearch, m, flag_c, tau, XLess(tau, state.tau),
        IF XLess(tau, state.tau)
        THEN update_xrgf(A, b, lsearch.x_new, tau)
        ELSE [x |-> lsearch.x_new, r |-> lsearch.r_new, g |-> g,
              f |-> lsearch.f_val])

\* body_func from flag_c on: the Newton update of tau if flag_c holds
bpic_body_tau(A, b, sigma, o, state, lsearch, g, m) ==
    bpic_body_resync(A, b, state, lsearch, g, m,
        bpic_flag_c(sigma, o, state, lsearch.f_val, m.r_norm),
        IF bpic_flag_c(sigma, o, state, lsearch.f_val, m.r_norm)
        THEN NewtonTau(state.tau, m.r_norm, sigma, m.g_dnorm)
        ELSE state.tau)

\* the locals of body_func from the result lsearch of the line search on
bpic_body_after(A, b, sigma, o, state, lsearch) ==
    bpic_body_tau(A, b, sigma, o, state, lsearch,
        VNeg(trans(A, lsearch.r_new)),
        bpic_metrics(b, lsearch.x_new, VNeg(trans(A, lsearch.r_new)),
                     lsearch.r_new, lsearch.f_val, sigma, state.tau))

\* the locals of one run of the BPIC body_func on state
bpic_body_locals(A, b, sigma, o, state) ==
    bpic_body_after(A, b, sigma, o, state,
        curvy_line_search(A, b, state.x, state.g, state.alpha_next,
                          MaxOf(state.f_past), state.tau, o.gamma))

bpic_body_func(o, state, l) ==
    [x |-> l.u.x, g |-> l.u.g, r |-> l.u.r,
     f_past |-> cbuf_push_left(state.f_past, l.u.f),
     tau |-> l.tau,
     r_norm |-> l.m.r_norm, r_gap |-> l.m.r_gap,
     r_res_error |-> l.m.r_res_error, r_f_error |-> l.m.r_f_error,
     alpha |-> l.lsearch.alpha,
     alpha_next |-> BBStep(l.s, l.y, o),
     iterations |-> state.iterations + 1,
     n_times |-> 2, n_trans |-> 2,
     n_newton |-> state.n_newton,
     n_ls_iters |-> l.lsearch.n_iters]

\* cond_func with logical_or in the place of logical_and(a, b)
bpic_cond_either(b, sigma, o, state) ==
    /\ \/ XLess(XMax(o.opt_tol, state.r_f_error), state.r_gap)
       \/ RLess(o.opt_tol, state.r_res_error)
       \/ /\ RLess(sigma, state.r_norm)
          /\ RLess(o.opt_tol, state.r_res_error)
          /\ RLess(RMul(o.bp_tol, norm(b)), state.r_norm)
    /\ WithinCap(o, state)

\* cond_func without the test of a residual still above sigma
bpic_cond_gap_only(b, sigma, o, state) ==
    /\ XLess(XMax(o.opt_tol, state.r_f_error), state.r_gap)
    /\ RLess(o.opt_tol, state.r_res_error)
    /\ WithinCap(o, state)

bpic_cond_func(b, sigma, o, state) ==
    LET a == XLess(XMax(o.opt_tol, state.r_f_error), state.r_gap)
        bb == RLess(o.opt_tol, state.r_res_error)
        u == RLess(sigma, state.r_norm)
        v == RLess(o.opt_tol, state.r_res_error)
        w == RLess(RMul(o.bp_tol, norm(b)), state.r_norm)
    IN  /\ (a /\ bb) \/ (u /\ v /\ w)
        /\ WithinCap(o, state)

(***************************************************************************)
(* SPG-L1 solver for the LASSO problem.                                    *)
(***************************************************************************)
\* the names bound at the top level of the module spgl1
ModuleNames ==
    {"math", "NamedTuple", "Callable", "array_str", "lax", "jit", "device_get",
     "jnp", "norm", "crn", "EPS", "SPGL1Options", "_project_to_l1_ball",
     "project_to_l1_ball", "project_to_l1_ball_at", "primal_norm", "dual_norm",
     "weighted_primal_l1_norm", "weighted_dual_linf_norm", "obj_val",
     "CurvyLineSearchState", "curvy_line_search", "lasso_metrics",
     "SPGL1LassoState", "solve_lasso_from", "solve_lasso", "solve_lasso_jit",
     "SPGL1BPState", "bpic_metrics", "tau_change", "compute_rgf", "update_xrgf",
     "solve_bpic_from", "solve_bpic", "solve_bpic_jit", "analyze_bpic_state"}

\* the global namespace in which the functions of the module run
ModuleGlobals == [name \in ModuleNames |-> "object"]

\* lasso_metrics is a function of the module, not a closure of the solver: its
\* parameters are x, g, r and f, and the names b and tau of its body are looked
\* up in the globals; a name bound nowhere raises NameError
lasso_metrics(globals, x, g, r, f) ==
    IF ~({"b", "tau"} \subseteq DOMAIN globals)
    THEN [raised |-> "NameError"]
    ELSE [raised |-> "",
          r_norm |-> norm(r),
          r_gap |-> RelGap(DualityGap(globals["b"], g, r, globals["tau"]), f)]

\* init() of solve_lasso_from after the projection of x0: the state, or the
\* exception that leaves it
lasso_init_at(A, b, tau, o, x) ==
    LET r == VSub(b, times(A, x))
        g == VNeg(trans(A, r))
        f == obj_val(r)
        alpha == InitialAlpha(x, g, tau, o)
        m == lasso_metrics(ModuleGlobals, x, g, r, f)
    IN  IF m.raised # ""
        THEN [raised |-> m.raised, x |-> x, alpha |-> alpha]
        ELSE [raised |-> "",
              state |->
                [x |-> x, g |-> g, r |-> r, f_past |-> full(o.memory, f),
                 r_norm |-> m.r_norm, r_gap |-> m.r_gap,
                 alpha |-> alpha, alpha_next |-> alpha,
                 iterations |-> 1, n_times |-> 2, n_trans |-> 2,
                 n_newton |-> 0, n_ls_iters |-> 0]]

lasso_init(A, b, tau, x0, o) ==
    lasso_init_at(A, b, tau, o, project_to_l1_ball(x0, tau))

\* body_func of solve_lasso_from from the result of the line search on
lasso_body_after(A, o, state, lsearch) ==
    LET x == lsearch.x_new
        r == lsearch.r_new
        g == VNeg(trans(A, r))
        f == lsearch.f_val
        m == lasso_metrics(ModuleGlobals, x, g, r, f)
    IN  IF m.raised # ""
        THEN [raised |-> m.raised, x |-> x, alpha |-> lsearch.alpha]
        ELSE [raised |-> "",
              state |->
                [x |-> x, g |-> g, r |-> r,
                 f_past |-> cbuf_push_left(state.f_past, f),
                 r_norm |-> m.r_norm, r_gap |-> m.r_gap,
                 alpha |-> lsearch.alpha,
                 alpha_next |-> BBStep(VSub(x, state.x), VSub(g, state.g), o),
                 iterations |-> state.iterations + 1,
                 n_times |-> 2, n_trans |-> 2,
                 n_newton |-> state.n_newton,
                 n_ls_iters |-> lsearch.n_iters]]

\* body_func of solve_lasso_from: the next state, or the exception
lasso_body_func(A, b, tau, o, state) ==
    lasso_body_after(A, o, state,
        curvy_line_search(A, b, state.x, state.g, state.alpha_next,
                          MaxOf(state.f_past), tau, o.gamma))

lasso_cond_func(b, o, state) ==
    /\ WithinCap(o, state)
    /\ XLess(o.opt_tol, state.r_gap)
    /\ RLeq(RMul(o.opt_tol, norm(b)), state.r_norm)

(***************************************************************************)
(* The two solvers as a state machine: init(), then the while loop of      *)
(* cond_func and body_func, then the return of the last state.             *)
(***************************************************************************)
MaxIters == 3
MaxMemory == 2

IVec(v) == [i \in 1..Len(v) |-> I(v[i])]
IMat(A) == [i \in 1..Len(A) |-> IVec(A[i])]

\* the operators A, each with the right-hand sides b of its height
Matrices ==
    {IMat(A) : A \in {<<<<1, 0>>, <<0, 1>>>>, <<<<1, 0>>, <<0, 2>>>>,
                      <<<<1, 0>>, <<0, 0>>>>, <<<<1, 1>>>>}}
RightSides(A) == VecsOfLen({I(-2), Zero, One, I(2)}, Len(A))
StartPoints == {IVec(v) : v \in {<<0, 0>>, <<1, 0>>, <<2, 2>>}}
Sigmas == {Zero, One, I(2), I(4)}
Taus == {Zero, Half(1), I(2)}

\* SPGL1Options: the tolerances at their defaults, the step bounds within the
\* range of the arithmetic
Options ==
    [bp_tol : {<<1, 1000000>>}, ls_tol : {<<1, 1000000>>},
     opt_tol : {<<1, 10000>>}, dec_tol : {<<1, 10000>>}, gamma : {<<1, 10000>>},
     alpha_min : {<<1, 16>>, Half(1)}, alpha_max : {I(8)},
     memory : 1..MaxMemory, max_matvec : {Inf}, max_iters : 0..MaxIters]

Problems ==
    UNION {[solver : {"bpic"}, A : {A}, b : RightSides(A), par : Sigmas,
            x0 : StartPoints, o : Options]
           \cup
           [solver : {"lasso"}, A : {A}, b : RightSides(A), par : Taus,
            x0 : StartPoints, o : Options] : A \in Matrices}

\* every number of the state is within the range that one more iteration of
\* the arithmetic can take
Small(p) == Abs(p[1]) <= MaxRep /\ p[2] <= MaxRep
Representable(state) ==
    /\ \A i \in 1..Len(state.x) : Small(state.x[i]) /\ Small(state.g[i])
    /\ \A i \in 1..Len(state.r) : Small(state.r[i])
    /\ \A i \in 1..Len(state.f_past) : Small(state.f_past[i])
    /\ Small(state.alpha_next)
    /\ "tau" \in DOMAIN state => Small(state.tau)

Init ==
    /\ pc = "start"
    /\ prob \in Problems
    /\ st = NoValue
    /\ loc = NoValue

\* what a call of init() or body_func of the LASSO solver leaves: the new
\* state, or the exception, which ends solve_lasso_from
Outcome(call, res) ==
    IF res.raised # ""
    THEN /\ pc' = "raised"
         /\ st' = NoValue
         /\ loc' = [call |-> call, raised |-> res.raised,
                    x |-> res.x, alpha |-> res.alpha]
    ELSE /\ pc' = "loop"
         /\ st' = res.state
         /\ loc' = [call |-> call, prev |-> st]

\* solve_lasso_from up to the end of init()
LassoInit ==
    /\ pc = "start"
    /\ prob.solver = "lasso"
    /\ Outcome("init", lasso_init(prob.A, prob.b, prob.par, prob.x0, prob.o))
    /\ UNCHANGED prob

\* solve_bpic_from up to the end of init()
BpicInit ==
    /\ pc = "start"
    /\ prob.solver = "bpic"
    /\ st' = bpic_init(prob.A, prob.b, prob.par, prob.x0, prob.o)
    /\ loc' = [call |-> "init", prev |-> NoValue]
    /\ pc' = "loop"
    /\ UNCHANGED prob

\* cond_func of the solver at hand
cond_func(state) ==
    IF prob.solver = "lasso"
    THEN lasso_cond_func(prob.b, prob.o, state)
    ELSE bpic_cond_func(prob.b, prob.par, prob.o, state)

\* one turn of the while loop: cond_func holds and body_func replaces the state
LoopBody ==
    /\ pc = "loop"
    /\ cond_func(st)
    /\ Representable(st)
    /\ IF prob.solver = "lasso"
       THEN Outcome("body", lasso_body_func(prob.A, prob.b, prob.par, prob.o, st))
       ELSE /\ pc' = "loop"
            /\ loc' = [call |-> "body", prev |-> st,
                       l |-> bpic_body_locals(prob.A, prob.b, prob.par, prob.o, st)]
            /\ st' = bpic_body_func(prob.o, st, loc'.l)
    /\ UNCHANGED prob

\* cond_func fails: the loop ends and the solver returns the state
LoopExit ==
    /\ pc = "loop"
    /\ ~cond_func(st)
    /\ pc' = "returned"
    /\ UNCHANGED <<prob, st, loc>>

Next == LassoInit \/ BpicInit \/ LoopBody \/ LoopExit

Spec == Init /\ [][Next]_vars

(***************************************************************************)
(* The BPIC solver with the while loop of curvy_line_search taken one      *)
(* step at a time: init(), next_func while cond_func holds, and the        *)
(* return into body_func, which runs to its end with the returned state.   *)
(* The problems are steep ones with long fixed steps, on which the search  *)
(* halves often; their numbers stay within the range of the arithmetic.    *)
(***************************************************************************)
LsMatrices == {IMat(<<<<0, 2>>, <<0, 3>>>>)}
LsRightSides == VecsOfLen({I(-1), Zero, One, I(2)}, 2)
LsSteps == {<<<<1, 16>>, I(8)>>, <<I(1024), I(1024)>>}

LsOptions ==
    {[bp_tol |-> <<1, 1000000>>, ls_tol |-> <<1, 1000000>>,
      opt_tol |-> <<1, 10000>>, dec_tol |-> <<1, 10000>>, gamma |-> gamma,
      alpha_min |-> a[1], alpha_max |-> a[2],
      memory |-> 1, max_matvec |-> max_matvec, max_iters |-> 2] :
        gamma \in {<<1, 10000>>, <<1, 4>>}, a \in LsSteps,
        max_matvec \in {I(4), Inf}}

\* with them the problems of an operator with a zero row, on which the search
\* meets directions of no descent, and of a diagonal one, on which tau shrinks
LsProblems ==
    [solver : {"bpic"}, A : LsMatrices, b : LsRightSides, par : {Zero, One},
     x0 : {IVec(<<0, 0>>)}, o : LsOptions]
        \cup
    [solver : {"bpic"}, A : {IMat(<<<<1, 0>>, <<0, 0>>>>)},
     b : RightSides(<<1, 2>>), par : Sigmas, x0 : StartPoints,
     o : {o \in LsOptions : o.alpha_max = I(8) /\ o.max_matvec = Inf}]
        \cup
    [solver : {"bpic"}, A : {IMat(<<<<1, 0>>, <<0, 2>>>>)},
     b : {IVec(<<2, 2>>)}, par : Sigmas,
     x0 : {IVec(<<0, 0>>), IVec(<<2, 2>>)},
     o : {o \in LsOptions : o.alpha_max = I(8) /\ o.max_matvec = Inf
                                /\ o.gamma = <<1, 10000>>}]

InitLS ==
    /\ pc = "start"
    /\ prob \in LsProblems
    /\ st = NoValue
    /\ loc = NoValue

\* the locals of body_func while the line search with the arguments c runs
LsSearch(c) == [call |-> "search", c |-> c, s |-> ls_init(c)]

\* body_func up to the end of init() of curvy_line_search
LsInit ==
    /\ pc = "loop"
    /\ cond_func(st)
    /\ pc' = "search"
    /\ loc' = LsSearch(LsArgs(prob.A, prob.b, st.x, st.g, st.alpha_next,
                              MaxOf(st.f_past), st.tau, prob.o.gamma))
    /\ UNCHANGED <<prob, st>>

\* one turn of lax.while_loop: cond_func holds and next_func replaces the state
LsNext ==
    /\ pc = "search"
    /\ ls_cond_func(loc.s)
    /\ loc' = [loc EXCEPT !.s = ls_next_func(loc.c, loc.s)]
    /\ UNCHANGED <<pc, prob, st>>

\* cond_func fails: curvy_line_search returns its state and body_func runs on
\* to its end with it
LsReturn ==
    /\ pc = "search"
    /\ ~ls_cond_func(loc.s)
    /\ pc' = "loop"
    /\ loc' = [call |-> "body", prev |-> st,
               l |-> bpic_body_after(prob.A, prob.b, prob.par, prob.o, st, loc.s)]
    /\ st' = bpic_body_func(prob.o, st, loc'.l)
    /\ UNCHANGED prob

NextLS == BpicInit \/ LsInit \/ LsNext \/ LsReturn \/ LoopExit

\* lax.while_loop is synchronous: a search in progress takes its next step,
\* a halving or the return.  One of the two is possible in every state of the
\* search, cond_func being a total test; the first disjunct, which is no step
\* of NextLS, says so without the arithmetic of next_func and body_func.
LsRuns ==
    /\ pc = "search"
    /\ \/ pc' = "paused" /\ UNCHANGED <<prob, st, loc>>
       \/ LsNext
       \/ LsReturn

SpecLS == InitLS /\ [][NextLS]_vars /\ WF_vars(LsRuns)

(***************************************************************************)
(* The applications of the operator A in the BPIC solver, in the order of  *)
(* the calls: "times" for A.times and "trans" for A.trans.                 *)
(***************************************************************************)
\* update_xrgf: r = b - A.times(x), then g = -A.trans(r)
update_xrgf_calls == <<"times", "trans">>

\* init(): update_xrgf at the norm of x0 and again at the Newton tau
bpic_init_calls == update_xrgf_calls \o update_xrgf_calls

\* curvy_line_search up to state: r_new = b - A.times(x_new) in each candidate
line_search_calls(state) == [i \in 1..state.n_iters |-> "times"]

\* body_func with the locals l: the line search, g = -A.trans(r), and
\* update_xrgf if tau shrank
bpic_body_calls(l) ==
    line_search_calls(l.lsearch) \o <<"trans">>
        \o (IF l.resync THEN update_xrgf_calls ELSE <<>>)

\* the calls of solve_bpic_from so far, max_iters = 2 allowing one body_func
SolveCalls ==
    IF loc.call = "init" THEN bpic_init_calls
    ELSE IF loc.call = "search"
         THEN bpic_init_calls \o line_search_calls(loc.s)
         ELSE bpic_init_calls \o bpic_body_calls(loc.l)

CountOf(calls, name) == Cardinality({i \in 1..Len(calls) : calls[i] = name})

(***************************************************************************)
(* The projector on its own: a vector and a radius are drawn, and          *)
(* project_to_l1_ball is applied to them.                                  *)
(***************************************************************************)
ProjEntries == {I(k) : k \in -MaxEntry..MaxEntry}
ProjVectors == UNION {VecsOfLen(ProjEntries, n) : n \in 1..MaxLen}
\* the radii: the integers from 0 to MaxEntry + 1, and two that are not integers
ProjRadii == {I(k) : k \in 0..(MaxEntry + 1)} \cup {Half(1), Half(3)}

InitProj ==
    /\ pc = "proj_call"
    /\ prob \in [x : ProjVectors, q : ProjRadii]
    /\ st = NoValue
    /\ loc = NoValue

ProjCall ==
    /\ pc = "proj_call"
    /\ st' = project_to_l1_ball(prob.x, prob.q)
    /\ pc' = "proj_done"
    /\ UNCHANGED <<prob, loc>>

NextProj == ProjCall

SpecProj == InitProj /\ [][NextProj]_vars

\* squared Euclidean distance
Dist2(u, v) == Dot(VSub(u, v), VSub(u, v))

\* the vertices q*e_i and -q*e_i of the ball of radius q in dimension n
Vertices(n, q) ==
    {[i \in 1..n |-> IF i = k THEN RMul(I(s), q) ELSE Zero] : k \in 1..n, s \in {-1, 1}}

\* the points the projection is compared with: the points of the ball with
\* entries in {-1, 0, 1}, and the points of the ball got by shrinking x by a
\* half-integer threshold
GridBall(x, q) ==
    {z \in VecsOfLen({I(-1), Zero, One}, Len(x))
           \cup {Shrink(x, Half(k)) : k \in 0..(2 * MaxEntry)} :
        RLeq(NormL1(z), q)}

\* C1: a vector that already lies in the ball is returned unchanged, entry by entry
ProjectionIdempotent ==
    (pc = "proj_done" /\ RLeq(NormL1(prob.x), prob.q)) => st = prob.x

ProjectionIdempotentWitness ==
    /\ pc = "proj_done"
    /\ RLeq(NormL1(prob.x), prob.q)
    /\ NormL1(prob.x) # Zero
    /\ st = prob.x

\* C2: the projection has l1 norm at most q, and exactly q when the input lies
\* outside the ball
ProjectionFeasible ==
    pc = "proj_done" =>
        /\ RLeq(NormL1(st), prob.q)
        /\ RLess(prob.q, NormL1(prob.x)) => NormL1(st) = prob.q

ProjectionFeasibleWitness ==
    /\ pc = "proj_done"
    /\ RLess(prob.q, NormL1(prob.x))
    /\ Len(prob.x) = 3
    /\ NormL1(st) = prob.q
    /\ \E i \in 1..3 : st[i] = Zero
    /\ \E i \in 1..3 : st[i] # Zero

\* C3: the projection is the point of the ball nearest to the input: it lies in
\* the ball, no point of the reference grid inside the ball is strictly
\* closer, and the variational inequality <x - p, v> <= <x - p, p> holds at every
\* vertex v of the ball (and so at every point of the ball, their convex hull)
ProjectionNearest ==
    pc = "proj_done" =>
        LET d == Dist2(st, prob.x)
            e == VSub(prob.x, st)
            c == Dot(e, st)
        IN  /\ RLeq(NormL1(st), prob.q)
            /\ \A z \in GridBall(prob.x, prob.q) : RLeq(d, Dist2(z, prob.x))
            /\ \A v \in Vertices(Len(prob.x), prob.q) : RLeq(Dot(e, v), c)

ProjectionNearestWitness ==
    /\ pc = "proj_done"
    /\ Len(prob.x) = 3
    /\ st # prob.x
    /\ \E i \in 1..3 : st[i] # Zero /\ st[i][2] # 1
    /\ \E z \in GridBall(prob.x, prob.q) : z # st /\ RLess(Dist2(st, prob.x), Dist2(z, prob.x))

(***************************************************************************)
(* Properties of the solvers.                                              *)
(***************************************************************************)
\* st holds a state of the solver named
HasState(solver) == prob.solver = solver /\ pc \in {"loop", "returned"}

ZeroVec(v) == \A i \in 1..Len(v) : v[i] = Zero

\* the stopping rule of the LASSO loop: one of the three conditions holds
LassoStop(state) ==
    \/ state.iterations >= prob.o.max_iters
    \/ XLeq(state.r_gap, prob.o.opt_tol)
    \/ RLess(state.r_norm, RMul(prob.o.opt_tol, norm(prob.b)))

\* C4: a call of solve_lasso_from has an init state, and the iterate x of that
\* state and of the state after every body iteration satisfies ||x||_1 <= tau.
LassoFeasible ==
    (prob.solver = "lasso" /\ pc # "start") =>
        /\ pc \in {"loop", "returned"}
        /\ XLeq(NormL1(st.x), prob.par)

\* C5: the iterate x of every BPIC state satisfies ||x||_1 <= tau of that state:
\* after init, after a body iteration that kept tau, that grew tau, and that
\* shrank tau and so projected x again.
BpicFeasible == HasState("bpic") => XLeq(NormL1(st.x), st.tau)

\* a body iteration of the BPIC solver has shrunk tau and projected x again
BpicShrunk ==
    /\ HasState("bpic")
    /\ loc.call = "body"
    /\ XLess(st.tau, loc.prev.tau)
    /\ loc.l.resync
    /\ st.x # loc.l.lsearch.x_new
    /\ XLeq(NormL1(st.x), st.tau)

\* C6: no step of a call of solve_lasso / solve_lasso_from ends in an
\* exception: the call goes from init into the loop and returns a state.
LassoNoException == prob.solver = "lasso" => pc # "raised"

\* C7: solve_lasso(A, b, tau = 0), which starts from x0 = 0, returns the state
\* of init: x is the zero vector, iterations = 1, n_ls_iters = 0, and the loop
\* runs no body iteration from it.
LassoZeroTau ==
    (prob.solver = "lasso" /\ prob.par = Zero /\ ZeroVec(prob.x0) /\ pc # "start") =>
        /\ pc \in {"loop", "returned"}
        /\ ZeroVec(st.x)
        /\ st.iterations = 1
        /\ st.n_ls_iters = 0
        /\ ~lasso_cond_func(prob.b, prob.o, st)

\* C8: the LASSO loop halts in a state exactly when iterations >= max_iters or
\* r_gap <= opt_tol or r_norm < opt_tol * ||b||: the returned state satisfies
\* one of the three, and a body iteration ran only from a state with none.
LassoHaltsExactly ==
    (prob.solver = "lasso" /\ pc # "start") =>
        /\ pc \in {"loop", "returned"}
        /\ pc = "returned" => LassoStop(st)
        /\ loc.call = "body" => ~LassoStop(loc.prev)

\* C9: in both solvers the iteration counter is 1 after init, a body iteration
\* starts only below max_iters and adds exactly 1, and the returned state is
\* the last one, with iterations at most max(1, max_iters); so the loop ends
\* after at most max_iters - 1 body iterations.
IterationsCapped ==
    [][/\ (pc = "start" /\ pc' = "loop") => st'.iterations = 1
       /\ (pc = "loop" /\ pc' = "loop") =>
            /\ st.iterations < prob.o.max_iters
            /\ st'.iterations = st.iterations + 1
       /\ pc' = "returned" =>
            /\ pc = "loop" /\ st' = st
            /\ st.iterations <= (IF prob.o.max_iters > 1 THEN prob.o.max_iters ELSE 1)
       /\ pc' = "raised" => pc \in {"start", "loop"}
       /\ pc \in {"returned", "raised"} => pc' = pc]_vars

\* the loop was ended by the cap alone: after two or more states, one more
\* iteration would have run under a larger max_iters
IterationsCappedWitness ==
    /\ HasState("bpic")
    /\ pc = "returned"
    /\ st.iterations = prob.o.max_iters
    /\ st.iterations >= 2
    /\ bpic_cond_func(prob.b, prob.par,
                      [prob.o EXCEPT !.max_iters = @ + 1], st)

\* alpha_min <= a <= alpha_max
InStepRange(a) == XLeq(prob.o.alpha_min, a) /\ XLeq(a, prob.o.alpha_max)

\* <s, y> and <s, s> / <s, y> of the body iteration that led to st
StepCurvature == Dot(VSub(st.x, loc.prev.x), VSub(st.g, loc.prev.g))
StepRatio ==
    RDiv(Dot(VSub(st.x, loc.prev.x), VSub(st.x, loc.prev.x)), StepCurvature)

\* C10: alpha_next of every solver state lies in [alpha_min, alpha_max], as
\* does the step that init of the LASSO solver computes; after a body
\* iteration it is alpha_max if <s, y> <= 0, and else <s, s> / <s, y>, raised to
\* alpha_min or lowered to alpha_max if it lies outside.
StepClamped ==
    /\ pc \in {"loop", "returned"} =>
        /\ InStepRange(st.alpha_next)
        /\ loc.call = "body" =>
            IF RLeq(StepCurvature, Zero)
            THEN st.alpha_next = prob.o.alpha_max
            ELSE IF RLess(StepRatio, prob.o.alpha_min)
            THEN st.alpha_next = prob.o.alpha_min
            ELSE IF RLess(prob.o.alpha_max, StepRatio)
            THEN st.alpha_next = prob.o.alpha_max
            ELSE st.alpha_next = StepRatio
    /\ pc = "raised" => InStepRange(loc.alpha)

\* a body iteration with <s, y> > 0 whose ratio lay below alpha_min
StepClampedWitness ==
    /\ HasState("bpic")
    /\ loc.call = "body"
    /\ RLess(Zero, StepCurvature)
    /\ RLess(StepRatio, prob.o.alpha_min)
    /\ st.alpha_next = prob.o.alpha_min

(***************************************************************************)
(* Properties of the line search.                                          *)
(***************************************************************************)
\* a body iteration has ended: loc.l.lsearch is the state its line search
\* returned, and loc.prev the solver state it started from
LsReturned == pc \in {"loop", "returned"} /\ loc.call = "body"

\* f_max of the line search of the body iteration that has ended
LsFMax == MaxOf(loc.prev.f_past)

\* C11 as stated: a search that returns a state with gtd < 0, whatever made it
\* stop, returns f_val < f_max.
LsDescent ==
    (LsReturned /\ RLess(loc.l.lsearch.gtd, Zero)) =>
        RLess(loc.l.lsearch.f_val, LsFMax)

\* C11, amended: a search that returns a state with gtd < 0 before the
\* iteration cap (n_iters < 10) returns f_val < f_max; the state returned at
\* the cap is the last candidate, whatever its f_val.
LsDescentBelowCap ==
    (/\ LsReturned
     /\ RLess(loc.l.lsearch.gtd, Zero)
     /\ loc.l.lsearch.n_iters < LsMaxIters) =>
        RLess(loc.l.lsearch.f_val, LsFMax)

\* a search that halved, stopped before the cap and went below f_max
LsDescentWitness ==
    /\ LsReturned
    /\ RLess(loc.l.lsearch.gtd, Zero)
    /\ loc.l.lsearch.n_iters > 1
    /\ loc.l.lsearch.n_iters < LsMaxIters
    /\ RLess(loc.l.lsearch.f_val, LsFMax)

\* f_max + gamma * alpha * gtd for the alpha and gtd of a line search state
LsArmijoBound(state) ==
    RAdd(LsFMax, RMul(RMul(prob.o.gamma, state.alpha), state.gtd))

\* C12: a search that stops with gtd < 0 before the iteration cap returns a
\* candidate with f_val < f_max + gamma * alpha * gtd, the first candidate
\* (n_iters = 1) included.
LsArmijo ==
    (/\ LsReturned
     /\ RLess(loc.l.lsearch.gtd, Zero)
     /\ loc.l.lsearch.n_iters < LsMaxIters) =>
        RLess(loc.l.lsearch.f_val, LsArmijoBound(loc.l.lsearch))

\* a search that halved and stopped before the cap with the bound satisfied
LsArmijoHalved ==
    /\ LsReturned
    /\ RLess(loc.l.lsearch.gtd, Zero)
    /\ loc.l.lsearch.n_iters > 1
    /\ loc.l.lsearch.n_iters < LsMaxIters
    /\ RLess(loc.l.lsearch.f_val, LsArmijoBound(loc.l.lsearch))

\* the steps of one line search: init() gives n_iters = 1, every halving adds 1
\* to n_iters, halves alpha and stays within the cap, and the state at which
\* the loop ends is the one body_func takes its new iterate from
LsStep ==
    /\ (pc = "loop" /\ pc' = "search") =>
            loc'.s.n_iters = 1 /\ loc'.s.alpha = st.alpha_next
    /\ (pc = "search" /\ pc' = "search") =>
            /\ loc'.s.n_iters = loc.s.n_iters + 1
            /\ loc'.s.n_iters <= LsMaxIters
            /\ loc'.s.alpha = RDiv(loc.s.alpha, I(2))
    /\ (pc = "search" /\ pc' = "loop") =>
            /\ loc'.l.lsearch = loc.s
            /\ st'.n_ls_iters = loc.s.n_iters
            /\ st'.iterations = st.iterations + 1
            /\ st'.alpha = loc.s.alpha
            /\ ~loc'.l.resync => st'.x = loc.s.x_new /\ st'.r = loc.s.r_new
            /\ loc'.l.resync => st'.x = project_to_l1_ball(loc.s.x_new, st'.tau)

\* C13: curvy_line_search always returns: n_iters starts at 1, grows by 1 with
\* every halving and never exceeds 10, so at most 10 candidates are computed;
\* the search that has begun ends, and the state it ends in (at the cap, the
\* last candidate, whether or not it passes the sufficient-decrease test) is
\* the one the solver takes as its new iterate.
LsTerminates ==
    /\ [][LsStep]_vars
    /\ [](pc = "search" => loc.s.n_iters \in 1..LsMaxIters)
    /\ (pc = "search") ~> (pc = "loop" /\ loc.call = "body")

\* a search that returned at the cap a candidate that fails the test, which
\* the solver took as its iterate
LsCapReached ==
    /\ LsReturned
    /\ loc.l.lsearch.n_iters = LsMaxIters
    /\ RLess(loc.l.lsearch.gtd, Zero)
    /\ RLeq(loc.l.lsearch.f_lim, loc.l.lsearch.f_val)
    /\ st.x = loc.l.lsearch.x_new
    /\ st.n_ls_iters = LsMaxIters

(***************************************************************************)
(* Properties of the operator budget and the operator counters.            *)
(***************************************************************************)
\* C14: with a finite max_matvec the solver stops once the applications of A
\* made so far reach the budget: body_func, and with it a line search, starts
\* only while the number of calls made is below max_matvec.
MatvecBudget ==
    (pc = "search" /\ loc.s.n_iters = 1)
        => XLess(I(Len(bpic_init_calls)), prob.o.max_matvec)

\* a body_func has run to its end although init() had used the budget up
MatvecBudgetPassed ==
    /\ pc = "returned"
    /\ loc.call = "body"
    /\ IsFinite(prob.o.max_matvec)
    /\ RLeq(prob.o.max_matvec, I(Len(bpic_init_calls)))
    /\ st.iterations = 2

\* C15: in the returned state n_times is the number of A.times calls of the
\* whole solve, those of the line search included, and n_trans the number of
\* A.trans calls.
OperatorCounts ==
    pc = "returned"
        => /\ st.n_times = CountOf(SolveCalls, "times")
           /\ st.n_trans = CountOf(SolveCalls, "trans")

\* a returned state after a body_func, whose calls the counters leave out
OperatorCountsAfterBody ==
    /\ pc = "returned"
    /\ loc.call = "body"
    /\ st.n_times = 2
    /\ CountOf(SolveCalls, "times") > 2

(***************************************************************************)
(* Properties of the stopping test of the BPIC solver.                     *)
(***************************************************************************)
BpicStoppedEarly ==
    /\ pc = "returned"
    /\ prob.solver = "bpic"
    /\ st.iterations < prob.o.max_iters

GapWithin == XLeq(st.r_gap, XMax(prob.o.opt_tol, st.r_f_error))
ResidualWithin == XLeq(st.r_res_error, prob.o.opt_tol)

\* C16 as stated: a return before the iteration cap happens only with the
\* relative gap within tolerance and the relative residual error within
\* tolerance.
BpicStopsConverged == BpicStoppedEarly => (GapWithin /\ ResidualWithin)

GapAbove == XLess(XMax(prob.o.opt_tol, st.r_f_error), st.r_gap)
ResidualAbove == XLess(prob.o.opt_tol, st.r_res_error)

\* C16: a return before the iteration cap happens only with the relative gap
\* not above max(opt_tol, r_f_error) or the relative residual error not above
\* opt_tol, and with one of the three tests of a residual still to be reduced
\* failing: r_norm > sigma, r_res_error > opt_tol, r_norm > bp_tol * norm(b).
BpicStopsEither ==
    BpicStoppedEarly
        => /\ ~GapAbove \/ ~ResidualAbove
           /\ \/ ~XLess(prob.par, st.r_norm)
              \/ ~ResidualAbove
              \/ ~XLess(RMul(prob.o.bp_tol, norm(prob.b)), st.r_norm)

\* a return before the cap after a body_func, the residual error within
\* tolerance and the gap, a number, above it
BpicStopsEitherWitness ==
    /\ BpicStoppedEarly
    /\ loc.call = "body"
    /\ ResidualWithin
    /\ IsFinite(st.r_gap)
    /\ GapAbove

(***************************************************************************)
(* Properties of tau in the BPIC solver.                                   *)
(***************************************************************************)
\* the first update_xrgf of init() and its metrics
InitTau == NormL1(prob.x0)
InitFirst == update_xrgf(prob.A, prob.b, prob.x0, InitTau)
InitMetrics ==
    bpic_metrics(prob.b, InitFirst.x, InitFirst.g, InitFirst.r, InitFirst.f,
                 prob.par, InitTau)

\* C17: tau of every BPIC state is at least 0 when the dual norms of the
\* gradient that the Newton corrections divided by were not 0: after init(),
\* and after a body_func on a state whose tau was at least 0.
TauNonNegative ==
    HasState("bpic")
        => IF loc.call = "init"
           THEN InitMetrics.g_dnorm # Zero
                    => IsFinite(st.tau) /\ RLeq(Zero, st.tau)
           ELSE (loc.l.m.g_dnorm # Zero /\ XLeq(Zero, loc.prev.tau))
                    => XLeq(Zero, st.tau)

\* init() and a body_func whose Newton corrections were negative before the
\* maximum with 0 and left tau = 0
TauClampedInit ==
    /\ HasState("bpic")
    /\ loc.call = "init"
    /\ InitMetrics.g_dnorm # Zero
    /\ RLess(NewtonTauUnclamped(InitTau, InitMetrics.r_norm, prob.par,
                                InitMetrics.g_dnorm), Zero)
    /\ st.tau = Zero

(***************************************************************************)
(* Wavelets: build_wavelet and the maximum useful level of decomposition,  *)
(* dwt_max_level.  A wavelet is its name, widths and filter lengths; None  *)
(* is the record with built = FALSE.                                       *)
(***************************************************************************)
MaxDataLen == 32
MaxFilterLen == 18

None == [built |-> FALSE]

\* family and order of the wavelet names in use
wname_to_family_order ==
    [haar |-> [family |-> "haar", order |-> 0],
     db1 |-> [family |-> "db", order |-> 1],
     db2 |-> [family |-> "db", order |-> 2],
     sym2 |-> [family |-> "sym", order |-> 2],
     sym3 |-> [family |-> "sym", order |-> 3],
     sym4 |-> [family |-> "sym", order |-> 4],
     sym5 |-> [family |-> "sym", order |-> 5],
     coif1 |-> [family |-> "coif", order |-> 1],
     mexh |-> [family |-> "mexh", order |-> 0],
     morl |-> [family |-> "morl", order |-> 0],
     gaus1 |-> [family |-> "gaus", order |-> 1]]

WaveletNames == DOMAIN wname_to_family_order

is_discrete_wavelet(family) ==
    family \in {"haar", "db", "sym", "coif", "bior", "rbio", "dmey"}

\* DiscreteWavelet, of its fields the short name, the width and the lengths
DiscreteWavelet(short_name, support_width, dec_len) ==
    [built |-> TRUE, short_name |-> short_name,
     support_width |-> support_width, dec_len |-> dec_len, rec_len |-> dec_len]

\* the symlets whose filters are of the support width, not of twice the order
build_symlet_odd(family, order) ==
    IF family = "haar" THEN DiscreteWavelet("haar", 1, 2)
    ELSE IF family = "db"
    THEN DiscreteWavelet("db", 2 * order - 1, 2 * order)
    ELSE IF family = "sym"
    THEN DiscreteWavelet("sym", 2 * order - 1, 2 * order - 1)
    ELSE IF family = "coif"
    THEN DiscreteWavelet("coif", 6 * order - 1, 6 * order)
    ELSE None

\* build_discrete_wavelet for the families haar, db, sym and coif, the orders
\* being within the tables of coefficients
build_discrete_wavelet(family, order) ==
    IF family = "haar" THEN DiscreteWavelet("haar", 1, 2)
    ELSE IF family = "db"
    THEN DiscreteWavelet("db", 2 * order - 1, 2 * order)
    ELSE IF family = "sym"
    THEN DiscreteWavelet("sym", 2 * order - 1, 2 * order)
    ELSE IF family = "coif"
    THEN DiscreteWavelet("coif", 6 * order - 1, 6 * order)
    ELSE None

build_wavelet(name) ==
    IF is_discrete_wavelet(wname_to_family_order[name].family)
    THEN build_discrete_wavelet(wname_to_family_order[name].family,
                                wname_to_family_order[name].order)
    ELSE None

\* floor(log2(n / d)) for positive n and d
RECURSIVE FloorLog2(_, _)
FloorLog2(n, d) ==
    IF n < d THEN FloorLog2(2 * n, d) - 1
    ELSE IF n < 2 * d THEN 0
    ELSE FloorLog2(n, 2 * d) + 1

\* the filter length that the second argument of dwt_max_level stands for:
\* a number, the name of a wavelet, or a wavelet
dwt_filter_len(arg) ==
    IF arg.kind = "name"
    THEN IF build_wavelet(arg.name).built
         THEN I(build_wavelet(arg.name).dec_len)
         ELSE NoValue
    ELSE IF arg.kind = "wavelet" THEN I(arg.w.dec_len)
    ELSE arg.val

dwt_max_level(data_len, arg) ==
    LET filter_len == dwt_filter_len(arg)
    IN  IF filter_len = NoValue \/ filter_len[2] # 1 \/ filter_len[1] < 2
        THEN [raised |-> "ValueError"]
        ELSE [raised |-> "",
              level |-> IF FloorLog2(data_len, filter_len[1] - 1) < 0 THEN 0
                        ELSE FloorLog2(data_len, filter_len[1] - 1)]

\* the second arguments: integers and floats, names, and built wavelets
WtArguments ==
    {[kind |-> t, val |-> I(k)] : t \in {"int", "float"}, k \in -1..MaxFilterLen}
        \cup {[kind |-> "float", val |-> v] : v \in {<<33, 10>>, Half(5)}}
        \cup {[kind |-> "name", name |-> n] : n \in WaveletNames}
        \cup {[kind |-> "wavelet", w |-> build_wavelet(name)] :
                name \in {n \in WaveletNames : build_wavelet(n).built}}

InitWt ==
    /\ pc = "wt_call"
    /\ prob \in [data_len : 1..MaxDataLen, filter_len : WtArguments]
    /\ st = NoValue
    /\ loc = NoValue

WtCall ==
    /\ pc = "wt_call"
    /\ st' = dwt_max_level(prob.data_len, prob.filter_len)
    /\ pc' = "wt_done"
    /\ UNCHANGED <<prob, loc>>

NextWt == WtCall

SpecWt == InitWt /\ [][NextWt]_vars

(***************************************************************************)
(* Properties of dwt_max_level.                                            *)
(***************************************************************************)
\* the result that the call in prob is to have for the filter length len
WtExpected(len) ==
    IF len < 2 THEN st.raised = "ValueError"
    ELSE /\ st.raised = ""
         /\ st.level >= 0
         /\ IF prob.data_len < len - 1 THEN st.level = 0
            ELSE /\ (len - 1) * Pow2(st.level) <= prob.data_len
                 /\ prob.data_len < (len - 1) * Pow2(st.level + 1)

WtIs(data_len, len, level) ==
    (prob.data_len = data_len /\ prob.filter_len.kind \in {"int", "float"}
        /\ prob.filter_len.val = I(len))
            => (st.raised = "" /\ st.level = level)

SameMagnitude(u) == \A i \in 1..Len(prob.x) : RAbs(prob.x[i]) = u

Sign(p) == IF p[1] > 0 THEN One ELSE IF p[1] < 0 THEN I(-1) ELSE Zero

\* C19: for x of length n with entries of one magnitude u and n u > q >= 0,
\* and whenever x is outside the ball and no prefix is flagged, the breakpoint
\* is K = n; for the entries of one magnitude the projection is
\* sign(x[i]) q / n in every entry, which is not 0 for q > 0.
EqualEntriesProjection ==
    pc = "proj_done"
        => /\ (RLess(prob.q, NormL1(prob.x))
                /\ ArgMax(Flags(SortDesc(VAbs(prob.x)), prob.q)) = 0)
                    => Breakpoint(SortDesc(VAbs(prob.x)), prob.q) = Len(prob.x)
           /\ \A u \in ProjEntries :
                (SameMagnitude(u) /\ RLess(prob.q, RMul(I(Len(prob.x)), u)))
                    => /\ Breakpoint(SortDesc(VAbs(prob.x)), prob.q) = Len(prob.x)
                       /\ \A i \in 1..Len(prob.x) :
                            /\ st[i] = RMul(Sign(prob.x[i]),
                                            RDiv(prob.q, I(Len(prob.x))))
                            /\ RLess(Zero, prob.q) => st[i] # Zero

\* three entries of magnitude 2 and of both signs, projected on the ball of
\* radius 3 / 2
EqualEntriesWitness ==
    /\ pc = "proj_done"
    /\ Len(prob.x) = 3
    /\ SameMagnitude(I(2))
    /\ prob.x[2] = I(-2)
    /\ prob.q = Half(3)
    /\ st[1] = Half(1)
    /\ st[2] = RNeg(Half(1))

(***************************************************************************)
(* The line search along a direction of no descent.                        *)
(***************************************************************************)
\* the first candidate of the line search that the last body_func ran
LsFirst ==
    candidate(LsArgs(prob.A, prob.b, loc.prev.x, loc.prev.g,
                     loc.prev.alpha_next, MaxOf(loc.prev.f_past),
                     loc.prev.tau, prob.o.gamma),
              loc.prev.alpha_next, One)

\* the state that body_func returned holds the iterate of the line search,
\* projected again where tau shrank
LsAccepted ==
    /\ st.iterations = loc.prev.iterations + 1
    /\ st.alpha = loc.l.lsearch.alpha
    /\ st.n_ls_iters = loc.l.lsearch.n_iters
    /\ IF loc.l.resync
       THEN st.x = project_to_l1_ball(loc.l.lsearch.x_new, st.tau)
       ELSE st.x = loc.l.lsearch.x_new /\ st.r = loc.l.lsearch.r_new

\* C20: when the first candidate of the line search has gtd >= 0 the search
\* returns it without a halving: n_iters = 1, alpha = alpha0, scale = 1,
\* n_safe = 0; body_func takes its x_new and r_new as the next iterate.
NonDescentStops ==
    (HasState("bpic") /\ loc.call = "body" /\ RLeq(Zero, LsFirst.gtd))
        => /\ loc.l.lsearch.n_iters = 1
           /\ loc.l.lsearch.alpha = loc.prev.alpha_next
           /\ loc.l.lsearch.scale = One
           /\ loc.l.lsearch.n_safe = 0
           /\ loc.l.lsearch.x_new = LsFirst.x_new
           /\ loc.l.lsearch.r_new = LsFirst.r_new
           /\ loc.l.lsearch.gtd = LsFirst.gtd
           /\ LsAccepted

\* a body_func whose line search met gtd >= 0 at once, with the objective of
\* the candidate not below the limit, and whose state holds the candidate
NonDescentWitness ==
    /\ HasState("bpic")
    /\ loc.call = "body"
    /\ RLeq(Zero, LsFirst.gtd)
    /\ RLeq(MaxOf(loc.prev.f_past), LsFirst.f_val)
    /\ loc.l.lsearch.n_iters = 1
    /\ ~loc.l.resync
    /\ st.x = LsFirst.x_new

(***************************************************************************)
(* The safeguard of the line search.                                       *)
(***************************************************************************)
\* C21: the loop of curvy_line_search, in whose steps alone the division
\* d_norm / g_norm / 2^n_safe stands, takes a step from a state with gtd < 0
\* only, and in such a state g_norm > 0 and d_norm > 0.
SafeguardDivision ==
    (pc = "search" /\ ls_cond_func(loc.s))
        => /\ RLess(loc.s.gtd, Zero)
           /\ XLess(Zero, loc.c.g_norm)
           /\ RLess(Zero, norm(loc.s.d_new))

\* a search whose safeguard has divided: the scale is d_norm / g_norm
SafeguardDivided ==
    /\ pc = "search"
    /\ loc.s.n_safe = 1
    /\ loc.s.scale = XDiv(loc.s.d_norm_old, loc.c.g_norm)
    /\ loc.s.scale # One

(***************************************************************************)
(* The update of tau in body_func of the BPIC solver.                      *)
(***************************************************************************)
BodyDone == HasState("bpic") /\ loc.call = "body"

\* the change of the objective and the residual norm of the line-search result
LsChange == RAbs(RSub(loc.l.lsearch.f_val, loc.prev.f_past[1]))
LsResidual == norm(loc.l.lsearch.r_new)

\* the two branches of the trigger, for the line-search result
TriggerA ==
    /\ RLeq(LsChange, RMul(prob.o.dec_tol, loc.l.lsearch.f_val))
    /\ RLess(RMul(I(2), prob.par), LsResidual)
TriggerB ==
    /\ RLeq(LsChange, RMul(RMul(<<1, 10>>, loc.l.lsearch.f_val),
                           RAbs(RSub(LsResidual, prob.par))))
    /\ RLeq(LsResidual, RMul(I(2), prob.par))

\* x, r, g, f of the new state are the outputs of the line search
LsOutputsKept ==
    /\ st.x = loc.l.lsearch.x_new
    /\ st.r = loc.l.lsearch.r_new
    /\ st.g = VNeg(trans(prob.A, loc.l.lsearch.r_new))
    /\ st.f_past[Len(st.f_past)] = loc.l.lsearch.f_val

\* C22: body_func leaves tau as it was unless branch (a) or branch (b) of the
\* trigger holds for the line-search result; without the trigger, and with a
\* corrected tau that is not smaller, x, r, g, f are the line-search outputs.
TauFrame ==
    BodyDone
        => /\ ~(TriggerA \/ TriggerB) => st.tau = loc.prev.tau
           /\ (~(TriggerA \/ TriggerB) \/ ~XLess(st.tau, loc.prev.tau))
                => LsOutputsKept

\* a body_func without the trigger that moved x and kept tau
TauFrameWitness ==
    /\ BodyDone
    /\ ~(TriggerA \/ TriggerB)
    /\ st.tau = loc.prev.tau
    /\ st.x # loc.prev.x
    /\ LsOutputsKept

(***************************************************************************)
(* The residual and the gradient of the solver states.                     *)
(***************************************************************************)
\* C23: in every state of the two solvers r = b - A x and g = -A^T r for the
\* stored x, r and g.
ResidualGradientConsistent ==
    pc \in {"loop", "returned"}
        => /\ st.r = VSub(prob.b, times(prob.A, st.x))
           /\ st.g = VNeg(trans(prob.A, st.r))

\* a state after a body_func that shrank tau and projected x again
ResyncConsistent ==
    /\ BodyDone
    /\ loc.l.resync
    /\ st.x # loc.l.lsearch.x_new
    /\ st.r # loc.l.lsearch.r_new
    /\ st.r = VSub(prob.b, times(prob.A, st.x))
    /\ st.g = VNeg(trans(prob.A, st.r))

(***************************************************************************)
(* The counter of the Newton steps.                                        *)
(***************************************************************************)
\* C24: in the returned state n_newton is the number of body_func runs in
\* which the trigger fired and tau took its Newton correction; max_iters = 2
\* allows one run.
NewtonStepsCounted ==
    (pc = "returned" /\ prob.solver = "bpic")
        => st.n_newton = IF loc.call = "body" /\ loc.l.flag_c THEN 1 ELSE 0

\* a returned state after a Newton correction that changed tau, with
\* n_newton still at 0
NewtonStepUncounted ==
    /\ pc = "returned"
    /\ loc.call = "body"
    /\ loc.l.flag_c
    /\ st.tau # loc.prev.tau
    /\ st.n_newton = 0

(***************************************************************************)
(* The LASSO body_func beside the BPIC body_func.                          *)
(***************************************************************************)
\* body_func of solve_lasso_from on the state that the BPIC body_func ran on,
\* with tau of that state
LassoBeside ==
    lasso_body_func(prob.A, prob.b, loc.prev.tau, prob.o, loc.prev)

\* C25: a BPIC body_func in which the trigger does not fire gives the x, r, g,
\* f_past, r_norm, r_gap, alpha, alpha_next, iterations and n_ls_iters that
\* the LASSO body_func gives from the same state with tau of that state.
LassoIsFixedTauBpic ==
    (BodyDone /\ ~loc.l.flag_c)
        => /\ LassoBeside.raised = ""
           /\ LassoBeside.state.x = st.x
           /\ LassoBeside.state.r = st.r
           /\ LassoBeside.state.g = st.g
           /\ LassoBeside.state.f_past = st.f_past
           /\ LassoBeside.state.r_norm = st.r_norm
           /\ LassoBeside.state.r_gap = st.r_gap
           /\ LassoBeside.state.alpha = st.alpha
           /\ LassoBeside.state.alpha_next = st.alpha_next
           /\ LassoBeside.state.iterations = st.iterations
           /\ LassoBeside.state.n_ls_iters = st.n_ls_iters

\* a BPIC body_func without the trigger, beside which the LASSO body_func
\* ends in the exception at the iterate that the BPIC state holds
LassoBesideRaises ==
    /\ BodyDone
    /\ ~loc.l.flag_c
    /\ LassoBeside.raised = "NameError"
    /\ LassoBeside.x = st.x

(***************************************************************************)
(* The continue predicate of the BPIC solver, factored.                    *)
(***************************************************************************)
ContinueFactored ==
    /\ ResidualAbove
    /\ \/ GapAbove
       \/ /\ XLess(prob.par, st.r_norm)
          /\ XLess(RMul(prob.o.bp_tol, norm(prob.b)), st.r_norm)
    /\ st.iterations < prob.o.max_iters

\* C26: cond_func of solve_bpic_from is r_res_error > opt_tol, and r_gap >
\* max(opt_tol, r_f_error) or r_norm above sigma and above bp_tol * norm(b),
\* and iterations < max_iters; from a state with r_res_error <= opt_tol the
\* loop takes no step but the return of that state, whatever the gap.
BpicContinue ==
    /\ [](HasState("bpic")
            => (bpic_cond_func(prob.b, prob.par, prob.o, st) <=> ContinueFactored))
    /\ [][(pc = "loop" /\ prob.solver = "bpic" /\ ResidualWithin)
            => (pc' = "returned" /\ st' = st)]_vars

\* the state of init() returned with the residual error within tolerance and
\* the gap above it, before the iteration cap
BpicContinueWitness ==
    /\ BpicStoppedEarly
    /\ loc.call = "init"
    /\ ResidualWithin
    /\ IsFinite(st.r_gap)
    /\ GapAbove

(***************************************************************************)
(* The metrics held in the BPIC state against the point held in it.        *)
(***************************************************************************)
\* bpic_metrics of the stored x, g, r, the latest objective value and tau
StoredMetrics ==
    bpic_metrics(prob.b, st.x, st.g, st.r, st.f_past[1], prob.par, st.tau)

MetricsOf(m) == <<m.r_norm, m.r_gap, m.r_res_error, m.r_f_error>>

\* C27: in every state of solve_bpic_from r_norm, r_gap, r_res_error and
\* r_f_error are what bpic_metrics gives for the stored x, g, r, f and tau.
MetricsDescribeState ==
    HasState("bpic") => MetricsOf(st) = MetricsOf(StoredMetrics)

\* a body_func run that changed tau and stored metrics of another point
MetricsStale ==
    /\ BodyDone
    /\ loc.l.flag_c
    /\ st.tau # loc.prev.tau
    /\ IsFinite(st.tau)
    /\ MetricsOf(st) # MetricsOf(StoredMetrics)

\* a body_func run that projected x again and kept the residual norm of before
ResidualNormStale ==
    /\ BodyDone
    /\ loc.l.resync
    /\ st.r_norm # norm(st.r)

(***************************************************************************)
(* solve_bpic when the start x0 = 0 is within sigma of b already.          *)
(***************************************************************************)
\* x0 = 0 as solve_bpic passes it, sigma >= norm(b) and A^T b nonzero
ZeroFeasible ==
    /\ prob.solver = "bpic"
    /\ ZeroVec(prob.x0)
    /\ RLeq(norm(prob.b), prob.par)
    /\ ~ZeroVec(trans(prob.A, prob.b))

\* C28: solve_bpic with sigma >= norm(b) and A^T b # 0 has tau = 0 and x = 0
\* after init(), cond_func false in that state, and returns it with
\* iterations = 1, no body_func having run.
ZeroReturned ==
    (HasState("bpic") /\ ZeroFeasible) =>
        /\ loc.call = "init"
        /\ st.tau = Zero
        /\ ZeroVec(st.x)
        /\ st.iterations = 1
        /\ ~bpic_cond_func(prob.b, prob.par, prob.o, st)

\* x = 0 returned for a b that is not 0, sigma strictly above norm(b)
ZeroReturnedWitness ==
    /\ pc = "returned"
    /\ ZeroFeasible
    /\ RLess(norm(prob.b), prob.par)
    /\ ZeroVec(st.x)
    /\ st.iterations = 1

\* the same for sigma = norm(b)
ZeroReturnedAtSigma ==
    /\ pc = "returned"
    /\ ZeroFeasible
    /\ norm(prob.b) = prob.par
    /\ ZeroVec(st.x)

(***************************************************************************)
(* When tau shrinks in body_func.                                          *)
(***************************************************************************)
TauShrank == XLess(st.tau, loc.prev.tau)

\* C29: in body_func tau decreases, and x, r, g, f are computed again, only
\* if the residual norm of the line search is below sigma; an update through
\* branch (a) of the trigger neither decreases tau nor projects again; with
\* r_norm >= sigma the new tau is at least the old one.
TauShrinksBelowSigma ==
    BodyDone =>
        /\ (TauShrank \/ loc.l.resync) => RLess(LsResidual, prob.par)
        /\ TriggerA => (~TauShrank /\ ~loc.l.resync)
        /\ RLeq(prob.par, LsResidual) => XLeq(loc.prev.tau, st.tau)

\* tau grown by an update with the residual norm above sigma
TauGrown ==
    /\ BodyDone
    /\ loc.l.flag_c
    /\ RLess(prob.par, LsResidual)
    /\ XLess(loc.prev.tau, st.tau)

\* tau shrunk and x projected again, the residual norm below sigma
TauShrunk ==
    /\ BodyDone
    /\ TauShrank
    /\ loc.l.resync
    /\ RLess(LsResidual, prob.par)

\* an update through branch (a)
TauBranchA == BodyDone /\ TriggerA /\ loc.l.flag_c

====
